---- MODULE Spec2Model ----
(***************************************************************************)
(* lift::EventLoop (src/src/EventLoop.cpp): one background thread runs a   *)
(* libuv loop that drives a curl multi handle.  Producer threads submit    *)
(* requests through AddRequest, the loop thread drains them in             *)
(* requests_accept_async, checkActions drives the engine and dispatches    *)
(* the completion callback, and Stop runs the shutdown handshake.          *)
(*                                                                         *)
(* The curl multi handle and the uv loop are external: the model keeps     *)
(* the part of their state the code reads and writes, and lets the engine  *)
(* choose freely, inside each call the code makes into it, what its        *)
(* interface allows (finish transfers, ask for a socket to be watched,     *)
(* call the timer function with any timeout).                              *)
(***************************************************************************)
EXTENDS Integers, Sequences, FiniteSets, TLC

\* Bounds of the model.
MaxRequests == 3
NumProducers == 2
MaxDepth == 2
MaxStops == 2

Requests == 1..MaxRequests

\* Threads that take part in the mutex and in Stop.  The producer threads
\* all run the same code and are counted, not named.
Worker == "worker"
Stopper == "stopper"
NoThread == "none"

\* CURLcode reported in a CURLMSG_DONE message: CURLE_OK or an error kind.
Results == {"OK", "ERR"}

\* What an engine call does about the timer function: it does not call it
\* (the empty tuple), or it calls curl_start_timeout with one timeout_ms:
\* negative (no timer needed), 0 (act now) or positive.
TimerCalls == {<<>>} \cup {<<ms>> : ms \in {-1, 0, 1}}

VARIABLES
    loop_pc,                  \* the worker: "start", in uv_run "turn", "cond", "poll", or "exited"
    stack,                    \* the worker's call frames above uv_run
    m_is_running,
    m_active_request_count,   \* the uint64 counter, as its signed representative mod 2^64
    m_pending_requests,
    m_pending_requests_lock,  \* the thread that holds the mutex, or NoThread
    m_async_closed,
    m_timeout_timer_closed,
    async_h,                  \* m_async: "open", "closing", "closed"
    timer_h,                  \* m_timeout_timer: "open", "closing", "closed"
    timer_armed,              \* uv_timer_start done and not yet expired or stopped
    async_pending,            \* uv_async_t pending flag (sends coalesce)
    loop_wake,                \* the loop's wakeup fd is readable
    stop_flag,                \* uv_stop was called
    cmh_handles,              \* easy handles the multi handle owns
    cmh_msgs,                 \* the multi handle's queue of CURLMSG_DONE messages
    ctx,                      \* CurlContext of each handle's socket
    prod_sending,             \* producers between the lock scope and uv_async_send
    next_id,                  \* identity of the next request pushed
    stop_pc,                  \* the owning thread: "ctor", "idle", its position in Stop, "destroyed"
    stops_called,
    stops_returned,
    add_log,                  \* handles in the order of curl_multi_add_handle
    cb_count,                 \* OnComplete invocations per request
    cb_status,                \* status of the Request OnComplete holds, per request
    close_calls,              \* uv_close calls on m_timeout_timer and m_async
    join_calls,               \* m_background_thread.join() calls
    off_loop_ops,             \* reactor calls made off the loop thread while it runs
    fault                     \* "none", or how the process died

vars == <<loop_pc, stack, m_is_running, m_active_request_count,
          m_pending_requests, m_pending_requests_lock, m_async_closed,
          m_timeout_timer_closed, async_h, timer_h, timer_armed,
          async_pending, loop_wake, stop_flag, cmh_handles, cmh_msgs, ctx,
          prod_sending, next_id, stop_pc, stops_called, stops_returned,
          add_log, cb_count, cb_status, close_calls, join_calls,
          off_loop_ops, fault>>

\* Groups of variables, for UNCHANGED.
flagVars == <<m_async_closed, m_timeout_timer_closed>>
handleVars == <<async_h, timer_h>>
engineVars == <<cmh_handles, cmh_msgs>>
prodVars == <<prod_sending, next_id>>
stopVars == <<stop_pc, stops_called, stops_returned>>
histVars == <<add_log, cb_count, cb_status>>
shutVars == <<close_calls, join_calls, off_loop_ops>>

----------------------------------------------------------------------------
\* Call frames of the worker.

Frame(fn, pc, h, res) == [fn |-> fn, pc |-> pc, h |-> h, res |-> res]
AcceptFrame == Frame("accept", "iter", 1, "-")
CheckFrame == Frame("check", "action", 0, "-")
StopFrame == Frame("stop", "close_timer", 0, "-")
BlockedFrame == Frame("add", "blocked", 0, "-")

\* The process has not died (an assertion, an uncaught exception).
Running == fault = "none"

InFrame == stack # <<>>
Top == stack[Len(stack)]
Pop == SubSeq(stack, 1, Len(stack) - 1)
SetTop(fr) == [stack EXCEPT ![Len(stack)] = fr]
At(fn, pc) == Running /\ InFrame /\ Top.fn = fn /\ Top.pc = pc
\* The loop thread is in uv_run itself, at pc.
InLoop(pc) == Running /\ loop_pc = pc /\ stack = <<>>
CheckDepth == Cardinality({i \in DOMAIN stack : stack[i].fn = "check"})

\* The user callbacks in progress (OnComplete entered and not yet returned).
CallbacksInProgress == {i \in DOMAIN stack : stack[i].fn = "check" /\ stack[i].pc = "in_cb"}

----------------------------------------------------------------------------
\* The members as the constructor initialises them, the handles initialised
\* and the background thread spawned; the constructing thread is in the
\* wait for IsRunning().
Init ==
    /\ loop_pc = "start"
    /\ stack = <<>>
    /\ m_is_running = FALSE
    /\ m_active_request_count = 0
    /\ m_pending_requests = <<>>
    /\ m_pending_requests_lock = NoThread
    /\ m_async_closed = FALSE
    /\ m_timeout_timer_closed = FALSE
    /\ async_h = "open"
    /\ timer_h = "open"
    /\ timer_armed = FALSE
    /\ async_pending = FALSE
    /\ loop_wake = FALSE
    /\ stop_flag = FALSE
    /\ cmh_handles = {}
    /\ cmh_msgs = <<>>
    /\ ctx = [h \in Requests |-> "none"]
    /\ prod_sending = 0
    /\ next_id = 1
    /\ stop_pc = "ctor"
    /\ stops_called = 0
    /\ stops_returned = 0
    /\ add_log = <<>>
    /\ cb_count = [h \in Requests |-> 0]
    /\ cb_status = [h \in Requests |-> "-"]
    /\ close_calls = [x \in {"timer", "async"} |-> 0]
    /\ join_calls = 0
    /\ off_loop_ops = {}
    /\ fault = "none"

----------------------------------------------------------------------------
\* The reactor (libuv), as far as the code uses it.

\* uv_async_send: sets the handle's pending flag and, unless it was already
\* set (sends coalesce), makes the loop's wakeup fd readable.
uv_async_send ==
    /\ async_pending' = TRUE
    /\ loop_wake' = (loop_wake \/ ~async_pending)

\* Handles queued by uv_close whose close callback has not run yet.
ClosingPending ==
    \/ timer_h = "closing"
    \/ async_h = "closing"
    \/ \E h \in Requests : ctx[h] = "closing"

\* A variant of LoopAlive in which the async handle does not keep the loop
\* alive.
LoopAliveNoAsync ==
    \/ timer_armed
    \/ \E h \in Requests : ctx[h] = "active"
    \/ ClosingPending

\* uv__loop_alive: an active handle (the async handle while open, an armed
\* timer, a started poll handle) or a handle waiting for its close callback.
LoopAlive ==
    \/ async_h = "open"
    \/ timer_armed
    \/ \E h \in Requests : ctx[h] = "active"
    \/ ClosingPending

\* EventLoop::run, entry: the background thread sets m_is_running and
\* enters uv_run.
RunStart ==
    /\ InLoop("start")
    /\ m_is_running' = TRUE
    /\ loop_pc' = "turn"
    /\ UNCHANGED <<stack, m_active_request_count, m_pending_requests,
                   m_pending_requests_lock, flagVars, handleVars, timer_armed,
                   async_pending, loop_wake, stop_flag, engineVars, ctx,
                   prodVars, stopVars, histVars, shutVars, fault>>

\* The constructor's wait ends: IsRunning() was observed true and the
\* constructor returns to its caller.
CtorReturn ==
    /\ Running
    /\ stop_pc = "ctor"
    /\ m_is_running
    /\ stop_pc' = "idle"
    /\ UNCHANGED <<loop_pc, stack, m_is_running, m_active_request_count,
                   m_pending_requests, m_pending_requests_lock, flagVars,
                   handleVars, timer_armed, async_pending, loop_wake,
                   stop_flag, engineVars, ctx, prodVars, stops_called,
                   stops_returned, histVars, shutVars, fault>>

\* uv_run, end of the closing phase of a loop turn: the close callbacks of
\* the handles queued so far have run.
ClosingPhaseDone ==
    /\ InLoop("turn") /\ ~ClosingPending
    /\ loop_pc' = "cond"
    /\ UNCHANGED <<stack, m_is_running, m_active_request_count,
                   m_pending_requests, m_pending_requests_lock, flagVars,
                   handleVars, timer_armed, async_pending, loop_wake,
                   stop_flag, engineVars, ctx, prodVars, stopVars, histVars,
                   shutVars, fault>>

\* EventLoop::run: the loop turn ends at uv_run's loop condition: the loop
\* polls again, or uv_run returns, m_is_running is cleared and the thread
\* ends.  A handle another thread queued for closing after the closing
\* phase is left unacknowledged when uv_run returns on the stop flag.
LoopTurn ==
    /\ InLoop("cond")
    /\ IF LoopAlive /\ ~stop_flag
       THEN loop_pc' = "poll" /\ UNCHANGED <<m_is_running, stop_flag>>
       ELSE loop_pc' = "exited" /\ m_is_running' = FALSE /\ stop_flag' = FALSE
    /\ UNCHANGED <<stack, m_active_request_count, m_pending_requests,
                   m_pending_requests_lock, flagVars, handleVars, timer_armed,
                   async_pending, loop_wake, engineVars, ctx, prodVars,
                   stopVars, histVars, shutVars, fault>>

\* The wakeup fd is readable: the poll returns, and the async callback
\* runs if the handle is open and pending.  requests_accept_async starts by
\* taking m_pending_requests_lock, which no other thread holds across steps.
PollWake ==
    /\ InLoop("poll") /\ loop_wake
    /\ loop_wake' = FALSE
    /\ loop_pc' = "turn"
    /\ IF async_h = "open" /\ async_pending
       THEN /\ async_pending' = FALSE
            /\ stack' = <<AcceptFrame>>
            /\ m_pending_requests_lock' = Worker
       ELSE UNCHANGED <<async_pending, stack, m_pending_requests_lock>>
    /\ UNCHANGED <<m_is_running, m_active_request_count, m_pending_requests,
                   flagVars, handleVars, timer_armed, stop_flag, engineVars,
                   ctx, prodVars, stopVars, histVars, shutVars, fault>>

\* on_uv_timeout_callback: the single-shot timer expires and checkActions()
\* runs with CURL_SOCKET_TIMEOUT.
on_uv_timeout_callback ==
    /\ InLoop("poll") /\ timer_armed
    /\ timer_armed' = FALSE
    /\ loop_pc' = "turn"
    /\ stack' = <<CheckFrame>>
    /\ UNCHANGED <<m_is_running, m_active_request_count, m_pending_requests,
                   m_pending_requests_lock, flagVars, handleVars,
                   async_pending, loop_wake, stop_flag, engineVars, ctx,
                   prodVars, stopVars, histVars, shutVars, fault>>

\* on_uv_curl_perform_callback: a polled socket is ready (the peer decides
\* when) and checkActions(socket, action) runs.
on_uv_curl_perform_callback(h) ==
    /\ InLoop("poll") /\ ctx[h] = "active"
    /\ loop_pc' = "turn"
    /\ stack' = <<CheckFrame>>
    /\ UNCHANGED <<m_is_running, m_active_request_count, m_pending_requests,
                   m_pending_requests_lock, flagVars, handleVars, timer_armed,
                   async_pending, loop_wake, stop_flag, engineVars, ctx,
                   prodVars, stopVars, histVars, shutVars, fault>>

\* uv_close_callback: the reactor acknowledges the close of m_async or of
\* m_timeout_timer, and the matching flag is set.
uv_close_callback(x) ==
    /\ InLoop("turn")
    /\ IF x = "async"
       THEN /\ async_h = "closing"
            /\ async_h' = "closed" /\ m_async_closed' = TRUE
            /\ UNCHANGED <<timer_h, m_timeout_timer_closed>>
       ELSE /\ timer_h = "closing"
            /\ timer_h' = "closed" /\ m_timeout_timer_closed' = TRUE
            /\ UNCHANGED <<async_h, m_async_closed>>
    /\ UNCHANGED <<loop_pc, stack, m_is_running, m_active_request_count,
                   m_pending_requests, m_pending_requests_lock, timer_armed,
                   async_pending, loop_wake, stop_flag, engineVars, ctx,
                   prodVars, stopVars, histVars, shutVars, fault>>

\* CurlContext::on_close: the reactor acknowledges the close of a poll
\* handle and the context is deleted.
on_close(h) ==
    /\ InLoop("turn") /\ ctx[h] = "closing"
    /\ ctx' = [ctx EXCEPT ![h] = "closed"]
    /\ UNCHANGED <<loop_pc, stack, m_is_running, m_active_request_count,
                   m_pending_requests, m_pending_requests_lock, flagVars,
                   handleVars, timer_armed, async_pending, loop_wake,
                   stop_flag, engineVars, prodVars, stopVars, histVars,
                   shutVars, fault>>

----------------------------------------------------------------------------
\* curl_start_timeout, called by the engine from inside a curl_multi_* call.

\* A variant of TimerAfter that does not stop the timer first.
TimerAfterNoStop(T) ==
    IF T = <<>>
    THEN timer_armed
    ELSE (timer_armed \/ (T[1] > 0 /\ timer_h = "open"))

\* The timer after the engine call's timer call T: curl_start_timeout
\* always stops the timer first and starts it again only for
\* timeout_ms > 0 (uv_timer_start fails on a closing handle).
TimerAfter(T) ==
    IF T = <<>> THEN timer_armed ELSE (T[1] > 0 /\ timer_h = "open")

\* For timeout_ms = 0 curl_start_timeout runs checkActions() inline, on
\* top of the frame that is inside the engine call.
StackAfterTimer(s, T) ==
    IF T = <<0>> THEN Append(s, CheckFrame) ELSE s

\* The model's bound on nested checkActions frames.
TimerCallOK(T) == T = <<0>> => CheckDepth < MaxDepth

----------------------------------------------------------------------------
\* EventLoop::AddRequest on a producer thread.

EmplaceBack(q, r) == Append(q, r)

\* The lock scope of a producer that is not inside AddRequest yet: lock,
\* emplace_back, unlock.  Requests are numbered in the order they enter
\* the queue.
ProdPush ==
    /\ Running
    /\ stop_pc \notin {"ctor", "destroyed"}
    /\ prod_sending < NumProducers
    /\ next_id <= MaxRequests
    /\ m_pending_requests_lock = NoThread
    /\ m_pending_requests' = EmplaceBack(m_pending_requests, next_id)
    /\ next_id' = next_id + 1
    /\ prod_sending' = prod_sending + 1
    /\ UNCHANGED <<loop_pc, stack, m_is_running, m_active_request_count,
                   m_pending_requests_lock, flagVars, handleVars, timer_armed,
                   async_pending, loop_wake, stop_flag, engineVars, ctx,
                   stopVars, histVars, shutVars, fault>>

\* A variant of ProdSend that signals only when its push found the queue
\* empty.
ProdSendOnlyFirst ==
    /\ Running
    /\ prod_sending > 0
    /\ IF Len(m_pending_requests) = 1
       THEN uv_async_send
       ELSE UNCHANGED <<async_pending, loop_wake>>
    /\ prod_sending' = prod_sending - 1
    /\ UNCHANGED <<loop_pc, stack, m_is_running, m_active_request_count,
                   m_pending_requests, m_pending_requests_lock, flagVars,
                   handleVars, timer_armed, stop_flag, engineVars, ctx,
                   next_id, stopVars, histVars, shutVars, fault>>

\* uv_async_send(&m_async), after the lock is released.
ProdSend ==
    /\ Running
    /\ prod_sending > 0
    /\ uv_async_send
    /\ prod_sending' = prod_sending - 1
    /\ UNCHANGED <<loop_pc, stack, m_is_running, m_active_request_count,
                   m_pending_requests, m_pending_requests_lock, flagVars,
                   handleVars, timer_armed, stop_flag, engineVars, ctx,
                   next_id, stopVars, histVars, shutVars, fault>>

----------------------------------------------------------------------------
\* requests_accept_async on the loop thread.

\* A variant of NextPending that visits the queue from its back.
NextPendingReversed(q, i) == q[Len(q) + 1 - i]

\* The request the range-for visits in its i-th iteration.
NextPending(q, i) == q[i]

\* One iteration: release the handle and curl_multi_add_handle it; inside
\* that call the engine may call curl_start_timeout(T).
AcceptAdd(T) ==
    /\ At("accept", "iter")
    /\ Top.h <= Len(m_pending_requests)
    /\ TimerCallOK(T)
    /\ LET r == NextPending(m_pending_requests, Top.h) IN
         /\ cmh_handles' = cmh_handles \cup {r}
         /\ add_log' = Append(add_log, r)
    /\ stack' = StackAfterTimer(SetTop([Top EXCEPT !.h = @ + 1]), T)
    /\ timer_armed' = TimerAfter(T)
    /\ UNCHANGED <<loop_pc, m_is_running, m_active_request_count,
                   m_pending_requests, m_pending_requests_lock, flagVars,
                   handleVars, async_pending, loop_wake, stop_flag, cmh_msgs,
                   ctx, prodVars, stopVars, cb_count, cb_status, shutVars,
                   fault>>

\* After the loop: the counter grows by size(), the queue is cleared and
\* the lock scope ends.
AcceptInc ==
    /\ At("accept", "iter")
    /\ Top.h > Len(m_pending_requests)
    /\ m_active_request_count' = m_active_request_count + Len(m_pending_requests)
    /\ m_pending_requests' = <<>>
    /\ m_pending_requests_lock' = NoThread
    /\ stack' = Pop
    /\ UNCHANGED <<loop_pc, m_is_running, flagVars, handleVars, timer_armed,
                   async_pending, loop_wake, stop_flag, engineVars, ctx,
                   prodVars, stopVars, histVars, shutVars, fault>>

----------------------------------------------------------------------------
\* The engine (curl multi handle) and its socket callback.

\* Handles the engine owns and has not yet reported DONE for.
InFlight ==
    {h \in cmh_handles : \A i \in DOMAIN cmh_msgs : cmh_msgs[i] # h}

\* What the engine may do with one transfer inside curl_multi_socket_action:
\* nothing, ask for its socket to be watched, or finish it.  (The result
\* code of a finished transfer is seen by the code only when it reads the
\* DONE message, and is chosen there.)
Outcomes == {"stay", "watch", "done"}

\* curl_handle_socket_actions on a socket's context c ("none": the engine's
\* per-socket slot is null).  POLL_IN/POLL_OUT create the context if there
\* is none and start polling; POLL_REMOVE calls Close() (uv_poll_stop,
\* uv_close) and clears the slot.
curl_handle_socket_actions(c, action) ==
    IF action \in {"POLL_IN", "POLL_OUT"}
    THEN (IF c = "none" THEN "active" ELSE c)
    ELSE IF action = "POLL_REMOVE"
    THEN (IF c = "active" THEN "closing" ELSE c)
    ELSE c

\* The socket callback the engine makes for a transfer with outcome o.
SocketCall(c, o) ==
    IF o = "watch" THEN curl_handle_socket_actions(c, "POLL_IN")
    ELSE IF o = "done" THEN curl_handle_socket_actions(c, "POLL_REMOVE")
    ELSE c

\* DONE messages of the transfers finished by one engine call, by handle.
RECURSIVE DoneMsgs(_)
DoneMsgs(D) ==
    IF D = {} THEN <<>>
    ELSE LET h == CHOOSE x \in D : \A y \in D : x <= y
         IN <<h>> \o DoneMsgs(D \ {h})

----------------------------------------------------------------------------
\* EventLoop::checkActions on the loop thread.

\* curl_multi_socket_action: the engine advances its transfers (f), makes
\* the socket callbacks that follow, and may call curl_start_timeout(T).
SocketAction(f, T) ==
    /\ At("check", "action")
    /\ TimerCallOK(T)
    /\ cmh_msgs' = cmh_msgs \o DoneMsgs({h \in InFlight : f[h] = "done"})
    /\ ctx' = [h \in Requests |->
                  IF h \in InFlight THEN SocketCall(ctx[h], f[h]) ELSE ctx[h]]
    /\ stack' = StackAfterTimer(SetTop([Top EXCEPT !.pc = "read"]), T)
    /\ timer_armed' = TimerAfter(T)
    /\ UNCHANGED <<loop_pc, m_is_running, m_active_request_count,
                   m_pending_requests, m_pending_requests_lock, flagVars,
                   handleVars, async_pending, loop_wake, stop_flag,
                   cmh_handles, prodVars, stopVars, histVars, shutVars, fault>>

\* curl_multi_info_read returns null: checkActions returns.
CheckReturn ==
    /\ At("check", "read")
    /\ cmh_msgs = <<>>
    /\ stack' = Pop
    /\ UNCHANGED <<loop_pc, m_is_running, m_active_request_count,
                   m_pending_requests, m_pending_requests_lock, flagVars,
                   handleVars, timer_armed, async_pending, loop_wake,
                   stop_flag, engineVars, ctx, prodVars, stopVars, histVars,
                   shutVars, fault>>

\* curl_multi_info_read returns a DONE message: the handle and the result
\* (res) are taken from it and curl_multi_remove_handle is called, inside
\* which the engine may call curl_start_timeout(T).
InfoRead(res, T) ==
    /\ At("check", "read")
    /\ cmh_msgs # <<>>
    /\ TimerCallOK(T)
    /\ LET h == Head(cmh_msgs) IN
         /\ cmh_handles' = cmh_handles \ {h}
         /\ stack' = StackAfterTimer(
                SetTop([Top EXCEPT !.pc = "deliver", !.h = h, !.res = res]), T)
    /\ cmh_msgs' = Tail(cmh_msgs)
    /\ timer_armed' = TimerAfter(T)
    /\ UNCHANGED <<loop_pc, m_is_running, m_active_request_count,
                   m_pending_requests, m_pending_requests_lock, flagVars,
                   handleVars, async_pending, loop_wake, stop_flag, ctx,
                   prodVars, stopVars, histVars, shutVars, fault>>

\* A variant of Deliver that hands every request over as a success.
DeliverSwallowsError ==
    /\ At("check", "deliver")
    /\ cb_count' = [cb_count EXCEPT ![Top.h] = @ + 1]
    /\ cb_status' = [cb_status EXCEPT ![Top.h] = "OK"]
    /\ stack' = SetTop([Top EXCEPT !.pc = "in_cb"])
    /\ UNCHANGED <<loop_pc, m_is_running, m_active_request_count,
                   m_pending_requests, m_pending_requests_lock, flagVars,
                   handleVars, timer_armed, async_pending, loop_wake,
                   stop_flag, engineVars, ctx, prodVars, stopVars, add_log,
                   shutVars, fault>>

\* The Request is rebuilt around the handle, setRequestStatus(easy_result)
\* is called and OnComplete is entered.
Deliver ==
    /\ At("check", "deliver")
    /\ cb_count' = [cb_count EXCEPT ![Top.h] = @ + 1]
    /\ cb_status' = [cb_status EXCEPT ![Top.h] = Top.res]
    /\ stack' = SetTop([Top EXCEPT !.pc = "in_cb"])
    /\ UNCHANGED <<loop_pc, m_is_running, m_active_request_count,
                   m_pending_requests, m_pending_requests_lock, flagVars,
                   handleVars, timer_armed, async_pending, loop_wake,
                   stop_flag, engineVars, ctx, prodVars, stopVars, add_log,
                   shutVars, fault>>

\* OnComplete returns, the Request it was given is destroyed and the
\* counter is decremented.
CbReturn ==
    /\ At("check", "in_cb")
    /\ m_active_request_count' = m_active_request_count - 1
    /\ cb_status' = [cb_status EXCEPT ![Top.h] = "-"]
    /\ stack' = SetTop([Top EXCEPT !.pc = "read", !.h = 0, !.res = "-"])
    /\ UNCHANGED <<loop_pc, m_is_running, m_pending_requests,
                   m_pending_requests_lock, flagVars, handleVars, timer_armed,
                   async_pending, loop_wake, stop_flag, engineVars, ctx,
                   prodVars, stopVars, add_log, cb_count, shutVars, fault>>

----------------------------------------------------------------------------
\* What the user callback may do: call AddRequest or Stop on its loop.

\* A variant of CbAddRequest that drains the queue inside the call instead
\* of signalling the loop.
CbAddRequestInline ==
    /\ At("check", "in_cb")
    /\ next_id <= MaxRequests
    /\ m_pending_requests_lock = NoThread
    /\ m_pending_requests' = EmplaceBack(m_pending_requests, next_id)
    /\ next_id' = next_id + 1
    /\ m_pending_requests_lock' = Worker
    /\ stack' = Append(stack, AcceptFrame)
    /\ UNCHANGED <<loop_pc, m_is_running, m_active_request_count, flagVars,
                   handleVars, timer_armed, async_pending, loop_wake,
                   stop_flag, engineVars, ctx, prod_sending, stopVars,
                   histVars, shutVars, fault>>

\* AddRequest from inside OnComplete, the mutex being free: the lock scope
\* and uv_async_send, all on the loop thread.
CbAddRequest ==
    /\ At("check", "in_cb")
    /\ next_id <= MaxRequests
    /\ m_pending_requests_lock = NoThread
    /\ m_pending_requests' = EmplaceBack(m_pending_requests, next_id)
    /\ next_id' = next_id + 1
    /\ uv_async_send
    /\ UNCHANGED <<loop_pc, stack, m_is_running, m_active_request_count,
                   m_pending_requests_lock, flagVars, handleVars, timer_armed,
                   stop_flag, engineVars, ctx, prod_sending, stopVars,
                   histVars, shutVars, fault>>

\* AddRequest from inside OnComplete while the loop thread itself holds the
\* mutex (the callback runs under requests_accept_async's lock scope): the
\* lock_guard waits for a std::mutex its own thread owns.
CbAddRequestBlocked ==
    /\ At("check", "in_cb")
    /\ next_id <= MaxRequests
    /\ m_pending_requests_lock = Worker
    /\ stack' = Append(stack, BlockedFrame)
    /\ UNCHANGED <<loop_pc, m_is_running, m_active_request_count,
                   m_pending_requests, m_pending_requests_lock, flagVars,
                   handleVars, timer_armed, async_pending, loop_wake,
                   stop_flag, engineVars, ctx, prodVars, stopVars, histVars,
                   shutVars, fault>>

\* Stop called from inside OnComplete.
CbStop ==
    /\ At("check", "in_cb")
    /\ stack' = Append(stack, StopFrame)
    /\ UNCHANGED <<loop_pc, m_is_running, m_active_request_count,
                   m_pending_requests, m_pending_requests_lock, flagVars,
                   handleVars, timer_armed, async_pending, loop_wake,
                   stop_flag, engineVars, ctx, prodVars, stopVars, histVars,
                   shutVars, fault>>

----------------------------------------------------------------------------
\* EventLoop::Stop, on the stopping thread (t = Stopper) or on the loop
\* thread inside a callback (t = Worker).

StopAt(t, pc) == IF t = Worker THEN At("stop", pc) ELSE Running /\ stop_pc = pc

StopGoto(t, pc) ==
    IF t = Worker
    THEN stack' = SetTop([Top EXCEPT !.pc = pc]) /\ UNCHANGED stop_pc
    ELSE stop_pc' = pc /\ UNCHANGED stack

\* A reactor call other than uv_async_send, recorded when a thread other
\* than the loop thread makes it while the loop thread runs the loop.
OffLoop(t, op) ==
    IF t # Worker /\ loop_pc # "exited"
    THEN off_loop_ops \cup {op}
    ELSE off_loop_ops

\* The stopping thread calls Stop.
StopCall ==
    /\ Running
    /\ stop_pc = "idle"
    /\ stops_called < MaxStops
    /\ stop_pc' = "close_timer"
    /\ stops_called' = stops_called + 1
    /\ UNCHANGED <<loop_pc, stack, m_is_running, m_active_request_count,
                   m_pending_requests, m_pending_requests_lock, flagVars,
                   handleVars, timer_armed, async_pending, loop_wake,
                   stop_flag, engineVars, ctx, prodVars, stops_returned,
                   histVars, shutVars, fault>>

\* uv_timer_stop(&m_timeout_timer), then uv_close on it.  uv_close of a
\* handle that is already closing or closed trips libuv's assertion, or,
\* with assertions compiled out, queues the handle for closing again.
StopCloseTimer(t) ==
    /\ StopAt(t, "close_timer")
    /\ timer_armed' = FALSE
    /\ close_calls' = [close_calls EXCEPT !["timer"] = @ + 1]
    /\ off_loop_ops' = OffLoop(t, "uv_close")
    /\ \/ timer_h = "open" /\ timer_h' = "closing" /\ UNCHANGED fault
       \/ timer_h # "open" /\ timer_h' = "closing" /\ UNCHANGED fault
       \/ timer_h # "open" /\ fault' = "uv_close_twice" /\ UNCHANGED timer_h
    /\ StopGoto(t, "close_async")
    /\ UNCHANGED <<loop_pc, m_is_running, m_active_request_count,
                   m_pending_requests, m_pending_requests_lock, flagVars,
                   async_h, async_pending, loop_wake, stop_flag, engineVars,
                   ctx, prodVars, stops_called, stops_returned, histVars,
                   join_calls>>

\* uv_close on m_async.
StopCloseAsync(t) ==
    /\ StopAt(t, "close_async")
    /\ close_calls' = [close_calls EXCEPT !["async"] = @ + 1]
    /\ off_loop_ops' = OffLoop(t, "uv_close")
    /\ \/ async_h = "open" /\ async_h' = "closing" /\ UNCHANGED fault
       \/ async_h # "open" /\ async_h' = "closing" /\ UNCHANGED fault
       \/ async_h # "open" /\ fault' = "uv_close_twice" /\ UNCHANGED async_h
    /\ StopGoto(t, "send")
    /\ UNCHANGED <<loop_pc, m_is_running, m_active_request_count,
                   m_pending_requests, m_pending_requests_lock, flagVars,
                   timer_h, timer_armed, async_pending, loop_wake, stop_flag,
                   engineVars, ctx, prodVars, stops_called, stops_returned,
                   histVars, join_calls>>

\* uv_async_send(&m_async), to wake a loop blocked in its poll.
StopSend(t) ==
    /\ StopAt(t, "send")
    /\ uv_async_send
    /\ StopGoto(t, "spin")
    /\ UNCHANGED <<loop_pc, m_is_running, m_active_request_count,
                   m_pending_requests, m_pending_requests_lock, flagVars,
                   handleVars, timer_armed, stop_flag, engineVars, ctx,
                   prodVars, stops_called, stops_returned, histVars,
                   shutVars, fault>>

\* The condition of the spin-wait: the thread sleeps while it holds.
StopWaits == ~m_timeout_timer_closed /\ ~m_async_closed

\* The spin-wait ends and uv_stop(m_loop) is called: it sets the loop's
\* stop flag, and wakes nothing.
StopUvStop(t) ==
    /\ StopAt(t, "spin")
    /\ ~StopWaits
    /\ stop_flag' = TRUE
    /\ off_loop_ops' = OffLoop(t, "uv_stop")
    /\ StopGoto(t, "join")
    /\ UNCHANGED <<loop_pc, m_is_running, m_active_request_count,
                   m_pending_requests, m_pending_requests_lock, flagVars,
                   handleVars, timer_armed, async_pending, loop_wake,
                   engineVars, ctx, prodVars, stops_called, stops_returned,
                   histVars, close_calls, join_calls, fault>>

\* m_background_thread.join() on the stopping thread: returns once the
\* worker has ended; throws std::system_error if the thread was joined
\* before (it is no longer joinable).
StopJoin ==
    /\ Running
    /\ stop_pc = "join"
    /\ \/ /\ join_calls = 0
          /\ loop_pc = "exited"
          /\ stop_pc' = "idle"
          /\ stops_returned' = stops_returned + 1
          /\ UNCHANGED fault
       \/ /\ join_calls > 0
          /\ fault' = "join_not_joinable"
          /\ UNCHANGED <<stop_pc, stops_returned>>
    /\ join_calls' = join_calls + 1
    /\ UNCHANGED <<loop_pc, stack, m_is_running, m_active_request_count,
                   m_pending_requests, m_pending_requests_lock, flagVars,
                   handleVars, timer_armed, async_pending, loop_wake,
                   stop_flag, engineVars, ctx, prodVars, stops_called,
                   histVars, close_calls, off_loop_ops>>

\* m_background_thread.join() on the loop thread itself: std::thread::join
\* throws std::system_error (resource_deadlock_would_occur).
StopJoinSelf ==
    /\ At("stop", "join")
    /\ join_calls' = join_calls + 1
    /\ fault' = "join_self"
    /\ UNCHANGED <<loop_pc, stack, m_is_running, m_active_request_count,
                   m_pending_requests, m_pending_requests_lock, flagVars,
                   handleVars, timer_armed, async_pending, loop_wake,
                   stop_flag, engineVars, ctx, prodVars, stopVars, histVars,
                   close_calls, off_loop_ops>>

\* EventLoop::~EventLoop on the owning thread, once a Stop call has returned
\* (the worker is joined) and no thread is inside AddRequest:
\* curl_multi_cleanup, then uv_loop_delete.  In curl_multi_cleanup the engine
\* may make the POLL_REMOVE socket callback for any socket still watched
\* (S); nothing in the destructor takes back the handles the engine holds,
\* and the loop never runs again.
Destroy ==
    /\ Running
    /\ stop_pc = "idle"
    /\ stops_returned >= 1
    /\ prod_sending = 0
    /\ stop_pc' = "destroyed"
    /\ \E S \in SUBSET {h \in Requests : ctx[h] = "active"} :
         ctx' = [h \in Requests |->
                    IF h \in S
                    THEN curl_handle_socket_actions(ctx[h], "POLL_REMOVE")
                    ELSE ctx[h]]
    /\ UNCHANGED <<loop_pc, stack, m_is_running, m_active_request_count,
                   m_pending_requests, m_pending_requests_lock, flagVars,
                   handleVars, timer_armed, async_pending, loop_wake,
                   stop_flag, engineVars, prodVars, stops_called,
                   stops_returned, histVars, shutVars, fault>>

----------------------------------------------------------------------------
\* Next-state relations.

\* The loop thread: uv_run, the reactor callbacks and what they call.
WorkerLoop ==
    \/ RunStart
    \/ ClosingPhaseDone
    \/ LoopTurn
    \/ PollWake
    \/ on_uv_timeout_callback
    \/ \E h \in Requests : on_close(h)
    \/ \E T \in TimerCalls : AcceptAdd(T)
    \/ AcceptInc
    \/ \E f \in [InFlight -> Outcomes], T \in TimerCalls : SocketAction(f, T)
    \/ CheckReturn
    \/ \E res \in Results, T \in TimerCalls : InfoRead(res, T)
    \/ Deliver
    \/ CbReturn

\* The close acknowledgments of m_async and m_timeout_timer, which only
\* Stop asks for.
CloseAck == \E x \in {"async", "timer"} : uv_close_callback(x)

\* A polled socket becomes ready: the peer's choice.
SocketReady == \E h \in Requests : on_uv_curl_perform_callback(h)

ProducerStep == ProdPush \/ ProdSend

CbSubmit == CbAddRequest \/ CbAddRequestBlocked

StopSteps(t) ==
    \/ StopCloseTimer(t)
    \/ StopCloseAsync(t)
    \/ StopSend(t)
    \/ StopUvStop(t)

StopperStep == StopSteps(Stopper) \/ StopJoin

WorkerStopStep == StopSteps(Worker) \/ StopJoinSelf

Next ==
    \/ WorkerLoop
    \/ CtorReturn
    \/ CloseAck
    \/ SocketReady
    \/ ProducerStep
    \/ CbSubmit
    \/ StopCall
    \/ StopperStep
    \/ Destroy
    \/ CbStop
    \/ WorkerStopStep

Spec == Init /\ [][Next]_vars

\* No Stop: producers, the loop thread, callbacks that submit.
NextSubmit ==
    \/ WorkerLoop
    \/ CtorReturn
    \/ SocketReady
    \/ ProducerStep
    \/ CbSubmit

\* No Stop, and callbacks that only return: producers and the loop thread.
NextStorm ==
    \/ WorkerLoop
    \/ CtorReturn
    \/ SocketReady
    \/ ProducerStep

\* Stop from the stopping thread only, callbacks that only return.
NextStop ==
    \/ WorkerLoop
    \/ CtorReturn
    \/ CloseAck
    \/ SocketReady
    \/ ProducerStep
    \/ StopCall
    \/ StopperStep
    \/ Destroy

SpecSubmit == Init /\ [][NextSubmit]_vars
SpecStorm == Init /\ [][NextStorm]_vars
SpecStop == Init /\ [][NextStop]_vars

\* Fairness.  The loop thread keeps running; each loop turn looks at the
\* wakeup fd and at the timer, so a wakeup or an expiry that is due is
\* served even if other callbacks keep the loop busy; a producer that has
\* pushed goes on to uv_async_send; the stopping thread keeps running.
\* Nothing makes a peer send: SocketReady has no fairness.
LoopFair ==
    /\ WF_vars(WorkerLoop)
    /\ SF_vars(PollWake)
    /\ SF_vars(on_uv_timeout_callback)
    /\ WF_vars(ProdSend)

StopFair ==
    /\ WF_vars(CloseAck)
    /\ WF_vars(StopperStep)
    /\ WF_vars(WorkerStopStep)

FairSpec == Spec /\ LoopFair /\ StopFair
FairSubmit == SpecSubmit /\ LoopFair
FairStorm == SpecStorm /\ LoopFair
FairStop == SpecStop /\ LoopFair /\ StopFair

----------------------------------------------------------------------------
\* Properties.

Range(q) == {q[i] : i \in DOMAIN q}
Pushed(r) == r < next_id
Added(r) == r \in Range(add_log)
TimesAdded(r) == Cardinality({i \in DOMAIN add_log : add_log[i] = r})
DoneReported(r) == r \in Range(cmh_msgs)

\* A completion is being dispatched: from the DONE message read to the
\* decrement that follows the callback's return.
Dispatching ==
    \E i \in DOMAIN stack :
        stack[i].fn = "check" /\ stack[i].pc \in {"deliver", "in_cb"}

\* C1: with stop() never called, a request whose handle the engine reports
\* DONE gets its completion callback, and no request ever gets two.
C1_DoneGetsOneCallback ==
    /\ [](\A r \in Requests : cb_count[r] <= 1)
    /\ \A r \in Requests : DoneReported(r) ~> (cb_count[r] = 1)

\* No request is handed to the engine twice or before it was pushed, and a
\* pushed request not yet handed over is still in the pending queue.
C2_Safety ==
    \A r \in Requests :
        /\ TimesAdded(r) <= 1
        /\ Added(r) => Pushed(r)
        /\ (Pushed(r) /\ ~Added(r)) => r \in Range(m_pending_requests)

\* C2: under a storm of producer pushes every pushed request is still
\* queued or was handed to the engine, none is handed over twice, and every
\* pushed request is eventually handed to the engine.
C2_EveryPushReachesEngineOnce ==
    /\ []C2_Safety
    /\ \A r \in Requests : Pushed(r) ~> Added(r)

\* All the requests reached the engine while the wakeups of two pushes are
\* still to be sent: the drains that took them were woken by other sends.
C2_Witness ==
    /\ Len(add_log) = MaxRequests
    /\ prod_sending = NumProducers

\* C3: a submit call made from inside a completion callback is never left
\* waiting for the queue mutex (it returns).
C3_SubmitInCallbackNeverBlocks ==
    ~(InFrame /\ Top.fn = "add" /\ Top.pc = "blocked")

\* Nothing is outstanding: the pending queue is empty, the engine owns no
\* handle and no completion is being dispatched.
Quiescent ==
    /\ m_pending_requests = <<>>
    /\ cmh_handles = {}
    /\ ~Dispatching

\* C4: m_active_request_count never goes below 0 (never wraps as an unsigned
\* counter), and it is 0 whenever the pending queue is empty, the engine owns
\* no handle and no completion is being dispatched.
C4_ActiveCount ==
    /\ m_active_request_count >= 0
    /\ Quiescent => m_active_request_count = 0

\* The loop thread is inside Stop, called from a completion callback.
InStopOnWorker == \E i \in DOMAIN stack : stack[i].fn = "stop"

\* C5: Stop called from inside a completion callback eventually returns;
\* stated for the runs in which no other thread calls Stop.
C5_StopInCallbackReturns ==
    [](stops_called = 0) => (InStopOnWorker ~> ~InStopOnWorker)

\* C6: calling Stop again closes no handle twice, joins the worker once
\* only and ends without error.
C6_StopIdempotent ==
    /\ \A x \in {"timer", "async"} : close_calls[x] <= 1
    /\ join_calls <= 1
    /\ fault = "none"

\* C7: a Stop call on the stopping thread eventually returns, the worker
\* joined.
C7_StopReturns ==
    (stop_pc # "idle" /\ stops_called = 1) ~> (stops_returned >= 1)

\* C8: no thread other than the worker makes a reactor call (other than
\* the wakeup signal) while the worker runs the loop.
C8_ReactorOnlyOnLoopThread == off_loop_ops = {}

\* C9: at most one completion callback is in progress at any time.
C9_CallbacksNeverOverlap == Cardinality(CallbacksInProgress) <= 1

\* A callback runs in a nested checkActions after another request's callback
\* has run and returned.
C9_Witness ==
    /\ At("check", "in_cb")
    /\ CheckDepth >= 2
    /\ \E r \in Requests : cb_count[r] = 1 /\ r # Top.h

\* C10: handles enter the engine in the order their requests entered the
\* queue, which extends the order of each thread's AddRequest calls.
C10_EngineAddOrder ==
    \A i, j \in DOMAIN add_log : i < j => add_log[i] < add_log[j]

\* All the requests were handed to the engine, in more than one drain.
C10_Witness ==
    /\ Len(add_log) = MaxRequests
    /\ m_active_request_count = 1

\* C11: while a completion callback is in progress the counter still counts
\* the request being delivered (it is at least 1); the decrement for it
\* comes after the callback's return.
C11_CountedDuringCallback ==
    CallbacksInProgress # {} => m_active_request_count >= 1

\* Stop has not been called, by the owning thread or from a callback.
StopNeverCalled == stops_called = 0 /\ ~InStopOnWorker

\* C12: IsRunning() is true from the constructor's return until Stop is
\* called, and false once a Stop call has returned.
C12_IsRunning ==
    /\ (stop_pc # "ctor" /\ StopNeverCalled) => m_is_running
    /\ stops_returned >= 1 => ~m_is_running

\* Stop has returned after requests went through the engine.
C12_Witness ==
    /\ stops_returned = 1
    /\ ~m_is_running
    /\ add_log # <<>>

C14_ExitAfterBothClosed ==
    stop_flag => (m_async_closed /\ m_timeout_timer_closed)

\* The loop thread is inside requests_accept_async.
InAccept == \E i \in DOMAIN stack : stack[i].fn = "accept"

\* Outside the wakeup callback and outside a completion dispatch the counter
\* equals the number of handles the engine owns.
CountMatchesEngine ==
    (~InAccept /\ ~Dispatching) =>
        m_active_request_count = Cardinality(cmh_handles)

\* C15: no completion is dispatched inside the drain, between a handle's
\* curl_multi_add_handle and the increment that counts it, and outside the
\* wakeup callback and outside a completion dispatch the counter equals the
\* number of handles the engine owns.
C15_IncrementAtomicWithDrain ==
    /\ ~(InAccept /\ Dispatching)
    /\ CountMatchesEngine

\* The current drain has passed a handle to curl_multi_add_handle.
DrainHasAdded == \E i \in DOMAIN stack : stack[i].fn = "accept" /\ stack[i].h > 1

\* C16: once the drain has passed a handle to the engine, the loop thread
\* no longer holds m_pending_requests_lock: no engine call, and nothing the
\* engine calls back into, runs under the mutex.
C16_MutexReleasedBeforeEngineAdd ==
    DrainHasAdded => m_pending_requests_lock # Worker

\* The queue position the drain in progress has reached: the Requests
\* before it have given their handle up (release()).
AcceptIndex ==
    IF InAccept
    THEN stack[CHOOSE i \in DOMAIN stack : stack[i].fn = "accept"].h
    ELSE 1

\* h belongs to a Request value: one in the pending queue that still holds
\* its handle, or the one checkActions rebuilds for OnComplete.
OwnedByRequest(h) ==
    \/ \E i \in DOMAIN m_pending_requests :
          m_pending_requests[i] = h /\ i >= AcceptIndex
    \/ \E i \in DOMAIN stack :
          /\ stack[i].fn = "check"
          /\ stack[i].pc \in {"deliver", "in_cb"}
          /\ stack[i].h = h

\* h belongs to the engine: the multi handle exists and holds it.
OwnedByEngine(h) == h \in cmh_handles /\ stop_pc # "destroyed"

\* The callback for h has run and returned.
CallbackReturned(h) ==
    /\ cb_count[h] >= 1
    /\ \A i \in CallbacksInProgress : stack[i].h # h

\* C17: every submitted handle whose callback has not returned is owned by
\* exactly one of a Request value and the engine, also when Stop and the
\* destructor have run.
C17_HandleOwnedByExactlyOne ==
    \A h \in Requests :
        (Pushed(h) /\ ~CallbackReturned(h)) =>
            (OwnedByRequest(h) # OwnedByEngine(h))

\* The same, up to the destructor.
OwnershipUntilDestroyed == stop_pc # "destroyed" => C17_HandleOwnedByExactlyOne

\* C18: every socket context that was created has gone through Close() and
\* the reactor's close acknowledgment (where it is freed) by the end of the
\* loop's life; none is left ACTIVE or CLOSING.
C18_ContextClosedOnce ==
    stop_pc = "destroyed" => \A h \in Requests : ctx[h] \in {"none", "closed"}

\* C19: once a Stop call has returned the loop thread has ended with no
\* callback in progress and no close acknowledgment still owed, so no
\* reactor callback and no completion callback can fire any more.
C19_NoCallbackAfterStop ==
    stops_returned >= 1 =>
        /\ loop_pc = "exited"
        /\ stack = <<>>
        /\ ~ClosingPending

\* The step is an engine call inside which the engine calls
\* curl_start_timeout with the timer call T.
EngineCallWith(T) ==
    \/ AcceptAdd(T)
    \/ \E f \in [InFlight -> Outcomes] : SocketAction(f, T)
    \/ \E res \in Results : InfoRead(res, T)

\* What curl_start_timeout(ms) is to leave behind: the timer armed exactly
\* for ms > 0, and checkActions() entered inline exactly for ms = 0.
TimerActionDone(ms) ==
    /\ timer_armed' = (ms > 0)
    /\ IF ms = 0
       THEN /\ Len(stack') = Len(stack) + 1
            /\ stack'[Len(stack')] = CheckFrame
       ELSE Len(stack') = Len(stack)

====
